---- MODULE Spec2Model ----
(***************************************************************************)
(* Dense matrix multiplication: the naive triple-loop kernel, Strassen's   *)
(* recursive engine, its bump-allocating scratch arena and the scratch     *)
(* sizing policy (include/matmul/{naive,strassen,arena,matrix}.hpp).       *)
(*                                                                         *)
(* Memory is byte addressed: a view is {buf, data, rows, cols, stride},    *)
(* data being the byte offset of its first element inside buffer buf, and  *)
(* element (r,c) lives at data + (r*stride + c)*sizeof(T).  Scalars are    *)
(* integer valued, so + - * are exact.                                     *)
(***************************************************************************)
EXTENDS Integers, Sequences, FiniteSets, TLC

VARIABLES
  op,      \* the entry point the caller runs
  inp,     \* the caller's inputs: shapes, seed, config, scalar type, arena
  mem,     \* initialised storage cells: <<buffer, byte address>> -> value
  arena,   \* ScratchArena: [cap_bytes, off_bytes]
  arena2,  \* a second, unrelated ScratchArena instance
  stack,   \* active strassen_rec frames, innermost last
  epc,     \* position inside the entry point
  status,  \* "running", "returned" or "failed"
  err,     \* the exception that ended the call: [kind, what]
  ops,     \* OpCounter: [mul, add]
  api      \* bookkeeping of the arena-API and sizing-policy drivers

vars == <<op, inp, mem, arena, arena2, stack, epc, status, err, ops, api>>

(***************************************************************************)
(* Bounds of the model.                                                    *)
(***************************************************************************)
MaxN == 4        \* matrix dimensions range over 0..MaxN
MaxSeed == 1     \* input matrices are generated from seeds 0..MaxSeed

(***************************************************************************)
(* Fixed-width unsigned arithmetic.  A w-bit unsigned integer is a little- *)
(* endian sequence of w/8 base-256 digits; products and sums are truncated *)
(* to the sequence length, i.e. taken modulo 2^w, as in C++.               *)
(***************************************************************************)
Limb == 2^8
U64Limbs == 64 \div 8
WideLimbs == 3 * U64Limbs   \* wide enough for the mathematical values

RECURSIVE FromNat(_, _)
FromNat(x, K) ==
  IF K = 0 THEN <<>> ELSE <<x % Limb>> \o FromNat(x \div Limb, K - 1)

RECURSIVE ToNat(_)
ToNat(a) ==
  IF a = <<>> THEN 0 ELSE Head(a) + Limb * ToNat(Tail(a))

RECURSIVE Norm(_, _)
Norm(coef, carry) ==
  IF coef = <<>> THEN <<>>
  ELSE LET t == Head(coef) + carry
       IN  <<t % Limb>> \o Norm(Tail(coef), t \div Limb)

RECURSIVE Conv(_, _, _, _)
Conv(a, b, i, j) ==
  IF j > i THEN 0 ELSE a[j] * b[i - j + 1] + Conv(a, b, i, j + 1)

MulW(a, b) == Norm([i \in 1..Len(a) |-> Conv(a, b, i, 1)], 0)
AddW(a, b) == Norm([i \in 1..Len(a) |-> a[i] + b[i]], 0)
Shr1(a) ==
  Norm([i \in 1..Len(a) |->
     (a[i] \div 2) + (IF i < Len(a) THEN (a[i + 1] % 2) * (Limb \div 2) ELSE 0)], 0)
Resize(a, K) == Norm([i \in 1..K |-> IF i <= Len(a) THEN a[i] ELSE 0], 0)

RECURSIVE GtW(_, _, _)
GtW(a, b, i) ==
  IF i = 0 THEN FALSE
  ELSE IF a[i] # b[i] THEN a[i] > b[i] ELSE GtW(a, b, i - 1)
Gt(a, b) == GtW(a, b, Len(a))

\* 2^k as a K-limb number
Pow2W(k, K) == Norm([i \in 1..K |-> IF i = (k \div 8) + 1 THEN 2^(k % 8) ELSE 0], 0)
MaxOfBits(bits, K) ==
  Norm([i \in 1..K |-> IF 8 * i <= bits THEN Limb - 1 ELSE 0], 0)

(***************************************************************************)
(* strassen.hpp: power-of-two helpers and the scratch sizing policy.       *)
(***************************************************************************)
RECURSIVE BitAnd(_, _)
BitAnd(a, b) ==
  IF a = 0 \/ b = 0 THEN 0
  ELSE (a % 2) * (b % 2) + 2 * BitAnd(a \div 2, b \div 2)

is_power_of_two(n) == n # 0 /\ BitAnd(n, n - 1) = 0

RECURSIVE NextPow2Loop(_, _)
NextPow2Loop(p, n) == IF p < n THEN NextPow2Loop(2 * p, n) ELSE p
next_power_of_two(n) == IF n = 0 THEN 1 ELSE NextPow2Loop(1, n)

kScratchAlignmentBytes == 16

\* while (t > 1) { t >>= 1; ++levels; }
RECURSIVE LevelsLoop(_, _)
LevelsLoop(t, levels) ==
  IF Gt(t, FromNat(1, Len(t))) THEN LevelsLoop(Shr1(t), levels + 1) ELSE levels

\* mutant: the alignment overhead and safety margin are forgotten
ScratchTotal64_NoOverhead(n, sizeofT) ==
  LET n64 == Resize(n, U64Limbs)
  IN  MulW(MulW(FromNat(3, U64Limbs), MulW(n64, n64)), FromNat(sizeofT, U64Limbs))

\* the value computed in std::uint64_t before the overflow test
ScratchTotal64(n, sizeofT) ==
  LET n64        == Resize(n, U64Limbs)
      nn         == MulW(n64, n64)
      data_bytes == MulW(MulW(FromNat(3, U64Limbs), nn), FromNat(sizeofT, U64Limbs))
      levels     == FromNat(LevelsLoop(n, 0), U64Limbs)
      align      == FromNat(kScratchAlignmentBytes, U64Limbs)
      overhead   == AddW(MulW(MulW(FromNat(9, U64Limbs), levels), align),
                         FromNat(1024, U64Limbs))
  IN  AddW(data_bytes, overhead)

\* n is a size_t of sizeBits bits; the result is [throws, value]
strassen_scratch_bytes(n, sizeofT, sizeBits) ==
  IF n = FromNat(0, Len(n))
  THEN [throws |-> FALSE, value |-> FromNat(0, U64Limbs)]
  ELSE LET total == ScratchTotal64(n, sizeofT)
       IN  IF Gt(total, MaxOfBits(sizeBits, U64Limbs))
           THEN [throws |-> TRUE, value |-> FromNat(0, U64Limbs)]
           ELSE [throws |-> FALSE, value |-> total]

\* the same quantity without any width: 3*n*n*sizeof(T) + 9*16*floor(log2 n) + 1024
ScratchBytesExact(n, sizeofT) ==
  LET nw == Resize(n, WideLimbs)
  IN  AddW(MulW(MulW(FromNat(3, WideLimbs), MulW(nw, nw)), FromNat(sizeofT, WideLimbs)),
           FromNat(9 * 16 * LevelsLoop(n, 0) + 1024, WideLimbs))

\* small sizes, as plain naturals (64-bit size_t), tabulated once
ScratchBytesTable ==
  [n \in 0..(2 * MaxN), sizeofT \in {4, 8, 16} |->
     ToNat(strassen_scratch_bytes(FromNat(n, U64Limbs), sizeofT, 64).value)]
  @@ <<>>
ScratchBytesNat(n, sizeofT) == ScratchBytesTable[n, sizeofT]

(***************************************************************************)
(* matrix.hpp: views.                                                      *)
(***************************************************************************)
Max(a, b) == IF a >= b THEN a ELSE b
SizeofT == inp.T.size

View(buf, data, rows, cols, stride) ==
  [buf |-> buf, data |-> data, rows |-> rows, cols |-> cols, stride |-> stride]

\* MatrixView::operator(): the bounds test and the addressed cell
InRange(v, r, c) == r < v.rows /\ c < v.cols
Addr(v, r, c) == <<v.buf, v.data + (r * v.stride + c) * SizeofT>>
Load(m, v, r, c) == m[Addr(v, r, c)]
Store(m, v, r, c, x) == (Addr(v, r, c) :> x) @@ m

subview_ok(v, r0, c0, rcount, ccount) ==
  r0 + rcount <= v.rows /\ c0 + ccount <= v.cols
\* mutant: the subview is given a packed stride of its own
subview_Packed(v, r0, c0, rcount, ccount) ==
  View(v.buf, v.data + (r0 * v.stride + c0) * SizeofT, rcount, ccount, ccount)

subview(v, r0, c0, rcount, ccount) ==
  View(v.buf, v.data + (r0 * v.stride + c0) * SizeofT, rcount, ccount, v.stride)

\* the cells a view covers, and the coordinates of a cell inside a view
ViewCells(v) == {Addr(v, r, c) : r \in 0..(v.rows - 1), c \in 0..(v.cols - 1)}
RowOf(v, x) == ((x[2] - v.data) \div SizeofT) \div v.stride
ColOf(v, x) == ((x[2] - v.data) \div SizeofT) % v.stride

\* does the destination share a cell with one of the operands?
Overlap(Out, Ins) == \E w \in Ins : ViewCells(Out) \cap ViewCells(w) # {}

(***************************************************************************)
(* arena.hpp: ScratchArena.                                                *)
(***************************************************************************)
\* (x + (a - 1)) & ~(a - 1)
align_up(x, a) == LET y == x + (a - 1) IN y - BitAnd(y, a - 1)

reset_capacity(ar, capacity_bytes) ==
  [ar EXCEPT !.cap_bytes = capacity_bytes, !.off_bytes = 0]

mark(ar) == ar.off_bytes

\* mutant: the offset is left where it is
rollback_Keep(ar, m) ==
  IF m > ar.off_bytes
  THEN [ok |-> FALSE, arena |-> ar]
  ELSE [ok |-> TRUE, arena |-> ar]

\* mutant: a mark equal to the current offset is refused too
rollback_Strict(ar, m) ==
  IF m >= ar.off_bytes
  THEN [ok |-> FALSE, arena |-> ar]
  ELSE [ok |-> TRUE, arena |-> [ar EXCEPT !.off_bytes = m]]

\* mutant: the range test is forgotten, any mark is installed
rollback_NoCheck(ar, m) ==
  [ok |-> TRUE, arena |-> [ar EXCEPT !.off_bytes = m]]

rollback(ar, m) ==
  IF m > ar.off_bytes
  THEN [ok |-> FALSE, arena |-> ar]
  ELSE [ok |-> TRUE, arena |-> [ar EXCEPT !.off_bytes = m]]

\* mutant: the offset stops at the aligned start, the matrix's bytes are not
\* added to it
alloc_matrix_NoBump(ar, rows, cols) ==
  IF rows = 0 \/ cols = 0
  THEN [ok |-> TRUE, arena |-> ar, view |-> View("null", 0, rows, cols, cols)]
  ELSE LET a == Max(16, inp.T.align)
           s == ((ar.off_bytes + a - 1) \div a) * a
       IN  IF s + rows * cols * SizeofT > ar.cap_bytes
           THEN [ok |-> FALSE, arena |-> ar, view |-> View("null", 0, 0, 0, 0)]
           ELSE [ok |-> TRUE, arena |-> [ar EXCEPT !.off_bytes = s],
                 view |-> View(ar.buf, s, rows, cols, cols)]

\* std::size_t arithmetic (64 bits): rows * cols * sizeof(T) and
\* aligned_off + bytes are taken modulo 2^64
SizeT(x) == FromNat(x, U64Limbs)

\* aligned_off + rows * cols * sizeof(T) as a size_t.  Operands below 2^10
\* cannot wrap, so their product and sum are taken directly.
AllocEnd(aligned_off, rows, cols, sizeofT) ==
  IF rows < 2^10 /\ cols < 2^10 /\ aligned_off < 2^20
  THEN SizeT(aligned_off + rows * cols * sizeofT)
  ELSE AddW(SizeT(aligned_off), MulW(MulW(SizeT(rows), SizeT(cols)), SizeT(sizeofT)))

alloc_matrix(ar, rows, cols) ==
  IF rows = 0 \/ cols = 0
  THEN [ok |-> TRUE, arena |-> ar, view |-> View("null", 0, rows, cols, cols)]
  ELSE LET align       == Max(kScratchAlignmentBytes, inp.T.align)
           aligned_off == align_up(ar.off_bytes, align)
           end         == AllocEnd(aligned_off, rows, cols, SizeofT)
       IN  IF Gt(end, SizeT(ar.cap_bytes))
           THEN [ok |-> FALSE, arena |-> ar, view |-> View("null", 0, 0, 0, 0)]
           ELSE [ok |-> TRUE,
                 arena |-> [ar EXCEPT !.off_bytes = ToNat(end)],
                 view |-> View(ar.buf, aligned_off, rows, cols, cols)]

(***************************************************************************)
(* op_counter.hpp, naive.hpp, and mat_add / mat_sub of strassen.hpp.       *)
(* A computation state st is [mem, ops]; a null counter is never touched.  *)
(***************************************************************************)
Count(o, dmul, dadd) ==
  IF inp.has_ops THEN [mul |-> o.mul + dmul, add |-> o.add + dadd] ELSE o

NoErr == [kind |-> "none", what |-> ""]
Throw(kind, what) == [kind |-> kind, what |-> what]

\* sum = A(i,0)*B(0,j); for (p = 1; p < k; ++p) sum += A(i,p)*B(p,j);
RECURSIVE Dot(_, _, _, _, _, _, _)
Dot(m, A, B, i, j, p, sum) ==
  IF p >= A.cols THEN sum
  ELSE Dot(m, A, B, i, j, p + 1, sum + Load(m, A, i, p) * Load(m, B, p, j))

\* the i/j loops, cell q-1 of the m x n result in row-major order
RECURSIVE NaiveLoop(_, _, _, _, _)
NaiveLoop(st, A, B, C, q) ==
  IF q > A.rows * B.cols THEN st
  ELSE LET i == (q - 1) \div B.cols
           j == (q - 1) % B.cols
           k == A.cols
       IN  IF k = 0
           THEN NaiveLoop([st EXCEPT !.mem = Store(st.mem, C, i, j, 0)], A, B, C, q + 1)
           ELSE NaiveLoop(
                  [mem |-> Store(st.mem, C, i, j,
                                 Dot(st.mem, A, B, i, j, 1,
                                     Load(st.mem, A, i, 0) * Load(st.mem, B, 0, j))),
                   ops |-> Count(st.ops, k, k - 1)],
                  A, B, C, q + 1)

NaiveCheck(A, B, C) ==
  IF A.cols # B.rows THEN Throw("invalid_argument", "gemm_naive: A.cols != B.rows")
  ELSE IF C.rows # A.rows \/ C.cols # B.cols
       THEN Throw("invalid_argument", "gemm_naive: C dims mismatch")
       ELSE NoErr

\* mutant: the sum is added to what C holds instead of replacing it
NaiveBulk_Accumulate(st, A, B, C) ==
  LET k == A.cols
      cells == A.rows * B.cols
  IN  IF k = 0 THEN st
      ELSE [mem |-> [x \in ViewCells(C) |->
                       LET i == RowOf(C, x)
                           j == ColOf(C, x)
                       IN  st.mem[x]
                           + Dot(st.mem, A, B, i, j, 1,
                                 Load(st.mem, A, i, 0) * Load(st.mem, B, 0, j))] @@ st.mem,
            ops |-> Count(st.ops, cells * k, cells * (k - 1))]

\* the same loops when C shares no cell with A or B: no read sees a write,
\* so every C(i,j) is computed from the memory before the call
NaiveBulk(st, A, B, C) ==
  LET k == A.cols
      cells == A.rows * B.cols
  IN  IF k = 0
      THEN [st EXCEPT !.mem = [x \in ViewCells(C) |-> 0] @@ st.mem]
      ELSE [mem |-> [x \in ViewCells(C) |->
                       LET i == RowOf(C, x)
                           j == ColOf(C, x)
                       IN  Dot(st.mem, A, B, i, j, 1,
                               Load(st.mem, A, i, 0) * Load(st.mem, B, 0, j))] @@ st.mem,
            ops |-> Count(st.ops, cells * k, cells * (k - 1))]

\* [err, mem, ops]
gemm_naive_impl(st, A, B, C) ==
  LET e == NaiveCheck(A, B, C)
  IN  IF e # NoErr THEN [err |-> e, mem |-> st.mem, ops |-> st.ops]
      ELSE LET r == IF Overlap(C, {A, B}) THEN NaiveLoop(st, A, B, C, 1)
                    ELSE NaiveBulk(st, A, B, C)
           IN  [err |-> NoErr, mem |-> r.mem, ops |-> r.ops]

MatDimsOk(A, B, Out) ==
  A.rows = B.rows /\ A.cols = B.cols /\ Out.rows = A.rows /\ Out.cols = A.cols

\* Out(i,j) = A(i,j) + sign*B(i,j), one add-op each, in row-major order
RECURSIVE MatLoop(_, _, _, _, _, _)
MatLoop(st, A, B, Out, sign, q) ==
  IF q > A.rows * A.cols THEN st
  ELSE LET i == (q - 1) \div A.cols
           j == (q - 1) % A.cols
       IN  MatLoop([mem |-> Store(st.mem, Out, i, j,
                                  Load(st.mem, A, i, j) + sign * Load(st.mem, B, i, j)),
                    ops |-> Count(st.ops, 0, 1)],
                   A, B, Out, sign, q + 1)

\* the same loop when Out shares no cell with A or B
MatBulk(st, A, B, Out, sign) ==
  [mem |-> [x \in ViewCells(Out) |->
              LET i == RowOf(Out, x)
                  j == ColOf(Out, x)
              IN  Load(st.mem, A, i, j) + sign * Load(st.mem, B, i, j)] @@ st.mem,
   ops |-> Count(st.ops, 0, A.rows * A.cols)]

MatApply(st, A, B, Out, sign) ==
  IF Overlap(Out, {A, B}) THEN MatLoop(st, A, B, Out, sign, 1)
  ELSE MatBulk(st, A, B, Out, sign)

mat_add(st, A, B, Out) == MatApply(st, A, B, Out, 1)
mat_sub(st, A, B, Out) == MatApply(st, A, B, Out, -1)

(***************************************************************************)
(* strassen.hpp: detail::strassen_rec, one frame per active call.          *)
(* A frame is [A, B, C, pc, base, k, M, entry_off]: M holds the scratch    *)
(* views allocated so far (M1..M7, T1, T2), k the next allocation or       *)
(* product, entry_off the arena offset at the moment of the call.          *)
(***************************************************************************)
Frame(A, B, C, off) ==
  [A |-> A, B |-> B, C |-> C, pc |-> "enter", base |-> 0, k |-> 1,
   M |-> <<>>, entry_off |-> off]

Top == stack[Len(stack)]
SetTop(f) == [stack EXCEPT ![Len(stack)] = f]
Half(f) == f.A.rows \div 2

\* quadrant (qi, qj) of a view: v.subview(qi*m, qj*m, m, m)
Quad(v, m, qi, qj) == subview(v, qi * m, qj * m, m, m)
QuadsOk(v, m) ==
  \A qi \in {0, 1}, qj \in {0, 1} : subview_ok(v, qi * m, qj * m, m, m)

RecCheck(f) ==
  IF f.A.rows # f.A.cols \/ f.B.rows # f.B.cols \/ f.C.rows # f.C.cols
  THEN Throw("invalid_argument", "strassen_rec: non-square")
  ELSE IF f.A.rows # f.B.rows \/ f.A.rows # f.C.rows
       THEN Throw("invalid_argument", "strassen_rec: size mismatch")
       ELSE NoErr

IsLeaf(f) == f.A.rows = 0 \/ f.A.rows <= inp.cfg.leaf_size

\* lines 134-153: the operand sums of product j, as <<sign, X, Y, Out>>:
\* mat_add(X, Y, Out) for sign 1, mat_sub(X, Y, Out) for sign -1
ProductSums(f, j) ==
  LET m   == Half(f)
      A11 == Quad(f.A, m, 0, 0)  A12 == Quad(f.A, m, 0, 1)
      A21 == Quad(f.A, m, 1, 0)  A22 == Quad(f.A, m, 1, 1)
      B11 == Quad(f.B, m, 0, 0)  B12 == Quad(f.B, m, 0, 1)
      B21 == Quad(f.B, m, 1, 0)  B22 == Quad(f.B, m, 1, 1)
      T1  == f.M[8]
      T2  == f.M[9]
  IN  CASE j = 1 -> << <<1, A11, A22, T1>>, <<1, B11, B22, T2>> >>
        [] j = 2 -> << <<1, A21, A22, T1>> >>
        [] j = 3 -> << <<-1, B12, B22, T2>> >>
        [] j = 4 -> << <<-1, B21, B11, T2>> >>
        [] j = 5 -> << <<1, A11, A12, T1>> >>
        [] j = 6 -> << <<-1, A21, A11, T1>>, <<1, B11, B12, T2>> >>
        [] j = 7 -> << <<-1, A12, A22, T1>>, <<1, B21, B22, T2>> >>

Sum(st, u) == IF u[1] = 1 THEN mat_add(st, u[2], u[3], u[4])
              ELSE mat_sub(st, u[2], u[3], u[4])

ProductPrep(st, f, j) ==
  LET s == ProductSums(f, j)
  IN  IF Len(s) = 1 THEN Sum(st, s[1]) ELSE Sum(Sum(st, s[1]), s[2])

\* the dimension test of mat_add / mat_sub, for every sum of product j
ProductDimsOk(f, j) ==
  \A i \in 1..Len(ProductSums(f, j)) :
    LET u == ProductSums(f, j)[i] IN MatDimsOk(u[2], u[3], u[4])

\* mutant: the first product is computed straight into C11
ProductArgs_IntoC(f, j) ==
  LET m  == Half(f)
      T1 == f.M[8]
      T2 == f.M[9]
  IN  CASE j = 1 -> <<T1, T2, Quad(f.C, m, 0, 0)>>
        [] j = 2 -> <<T1, Quad(f.B, m, 0, 0), f.M[2]>>
        [] j = 3 -> <<Quad(f.A, m, 0, 0), T2, f.M[3]>>
        [] j = 4 -> <<Quad(f.A, m, 1, 1), T2, f.M[4]>>
        [] j = 5 -> <<T1, Quad(f.B, m, 1, 1), f.M[5]>>
        [] j = 6 -> <<T1, T2, f.M[6]>>
        [] j = 7 -> <<T1, T2, f.M[7]>>

\* the (A, B, C) arguments of the j-th recursive call
ProductArgs(f, j) ==
  LET m  == Half(f)
      T1 == f.M[8]
      T2 == f.M[9]
  IN  CASE j = 1 -> <<T1, T2, f.M[1]>>
        [] j = 2 -> <<T1, Quad(f.B, m, 0, 0), f.M[2]>>
        [] j = 3 -> <<Quad(f.A, m, 0, 0), T2, f.M[3]>>
        [] j = 4 -> <<Quad(f.A, m, 1, 1), T2, f.M[4]>>
        [] j = 5 -> <<T1, Quad(f.B, m, 1, 1), f.M[5]>>
        [] j = 6 -> <<T1, T2, f.M[6]>>
        [] j = 7 -> <<T1, T2, f.M[7]>>

\* mutant: M5 is added instead of subtracted
V11_PlusM5(m1, m4, m5, m7) == ((m1 + m4) + m5) + m7

\* lines 157-171: the four quadrant values of one element
V11(m1, m4, m5, m7) == ((m1 + m4) - m5) + m7
V12(m3, m5) == m3 + m5
V21(m2, m4) == m2 + m4
V22(m1, m2, m3, m6) == ((m1 - m2) + m3) + m6

\* lines 155-181: the combination loop, 8 add-ops per element
RECURSIVE CombineLoop(_, _, _)
CombineLoop(st, f, q) ==
  LET m == Half(f)
  IN  IF q > m * m THEN st
      ELSE LET i   == (q - 1) \div m
               j   == (q - 1) % m
               x   == [t \in 1..7 |-> Load(st.mem, f.M[t], i, j)]
               v11 == V11(x[1], x[4], x[5], x[7])
               v12 == V12(x[3], x[5])
               v21 == V21(x[2], x[4])
               v22 == V22(x[1], x[2], x[3], x[6])
               w1  == Store(st.mem, Quad(f.C, m, 0, 0), i, j, v11)
               w2  == Store(w1, Quad(f.C, m, 0, 1), i, j, v12)
               w3  == Store(w2, Quad(f.C, m, 1, 0), i, j, v21)
               w4  == Store(w3, Quad(f.C, m, 1, 1), i, j, v22)
           IN  CombineLoop([mem |-> w4, ops |-> Count(st.ops, 0, 8)], f, q + 1)

\* the same loop when C shares no cell with M1..M7
CombineBulk(st, f) ==
  LET m == Half(f)
  IN  [mem |-> [c \in ViewCells(f.C) |->
                  LET i  == RowOf(f.C, c) % m
                      j  == ColOf(f.C, c) % m
                      qi == RowOf(f.C, c) \div m
                      qj == ColOf(f.C, c) \div m
                      x  == [t \in 1..7 |-> Load(st.mem, f.M[t], i, j)]
                  IN  CASE qi = 0 /\ qj = 0 -> V11(x[1], x[4], x[5], x[7])
                        [] qi = 0 /\ qj = 1 -> V12(x[3], x[5])
                        [] qi = 1 /\ qj = 0 -> V21(x[2], x[4])
                        [] qi = 1 /\ qj = 1 -> V22(x[1], x[2], x[3], x[6])] @@ st.mem,
       ops |-> Count(st.ops, 0, 8 * m * m)]

\* mutant: the combination is counted as 4 add-ops per element
Combine_Count4(st, f) ==
  [mem |-> CombineBulk(st, f).mem,
   ops |-> Count(st.ops, 0, 4 * Half(f) * Half(f))]

Combine(st, f) ==
  IF Overlap(f.C, {f.M[t] : t \in 1..7}) THEN CombineLoop(st, f, 1)
  ELSE CombineBulk(st, f)

(***************************************************************************)
(* Call and return plumbing.  Locals of the entry point (the padded        *)
(* matrices, and the arena gemm_strassen builds) die when it is left.      *)
(***************************************************************************)
Locals ==
  {"Ap", "Bp", "Cp"} \cup (IF op = "gemm_strassen" THEN {"arena"} ELSE {})
DropLocals(m) ==
  LET keep == {x \in DOMAIN m : x[1] \notin Locals}
  IN  [x \in keep |-> m[x]]

\* an exception leaves every active frame and the entry point
Fail(e, m) ==
  /\ status' = "failed"
  /\ err' = e
  /\ stack' = <<>>
  /\ epc' = "done"
  /\ mem' = DropLocals(m)

\* the innermost frame returns normally
Return(m) ==
  /\ stack' = SubSeq(stack, 1, Len(stack) - 1)
  /\ err' = err
  /\ IF Len(stack) > 1
     THEN /\ mem' = m
          /\ UNCHANGED <<epc, status>>
     ELSE IF epc = "rec_padded"
          THEN /\ mem' = m
               /\ epc' = "copyback"
               /\ status' = status
          ELSE /\ mem' = DropLocals(m)
               /\ epc' = "done"
               /\ status' = "returned"

Running == status = "running" /\ stack # <<>>

\* lines 94-103, a failing precondition: non-square, size mismatch, odd n
RecReject ==
  /\ Running /\ Top.pc = "enter"
  /\ LET f == Top
         e == RecCheck(f)
     IN  /\ \/ e # NoErr
            \/ ~IsLeaf(f) /\ f.A.rows % 2 # 0
            \/ ~IsLeaf(f) /\ \E v \in {f.A, f.B, f.C} : ~QuadsOk(v, Half(f))
         /\ Fail(IF e # NoErr THEN e
                 ELSE IF f.A.rows % 2 # 0
                      THEN Throw("invalid_argument", "strassen_rec: n must be even (pad first)")
                      ELSE Throw("invalid_argument", "subview out of range"),
                 mem)
  /\ UNCHANGED <<op, inp, arena, arena2, ops, api>>

\* lines 100-102: n == 0, or the base case handed to gemm_naive
RecLeaf ==
  /\ Running /\ Top.pc = "enter"
  /\ RecCheck(Top) = NoErr /\ IsLeaf(Top)
  /\ LET f == Top
         r == IF f.A.rows = 0 THEN [err |-> NoErr, mem |-> mem, ops |-> ops]
              ELSE gemm_naive_impl([mem |-> mem, ops |-> ops], f.A, f.B, f.C)
     IN  IF r.err # NoErr
         THEN Fail(r.err, mem) /\ ops' = ops
         ELSE Return(r.mem) /\ ops' = r.ops
  /\ UNCHANGED <<op, inp, arena, arena2, api>>

\* lines 105-121: mark the arena, split A, B, C into quadrants
RecSplit ==
  /\ Running /\ Top.pc = "enter"
  /\ RecCheck(Top) = NoErr /\ ~IsLeaf(Top) /\ Top.A.rows % 2 = 0
  /\ \A v \in {Top.A, Top.B, Top.C} : QuadsOk(v, Half(Top))
  /\ stack' = SetTop([Top EXCEPT !.pc = "alloc", !.base = mark(arena), !.k = 1])
  /\ UNCHANGED <<op, inp, mem, arena, arena2, epc, status, err, ops, api>>

\* lines 123-132: the k-th of the nine alloc_matrix(m, m) calls
RecAlloc ==
  /\ Running /\ Top.pc = "alloc"
  /\ LET f == Top
         r == alloc_matrix(arena, Half(f), Half(f))
     IN  IF ~r.ok
         THEN Fail(Throw("bad_alloc", "std::bad_alloc"), mem) /\ arena' = arena
         ELSE /\ arena' = r.arena
              /\ stack' = SetTop([f EXCEPT !.M = Append(f.M, r.view),
                                           !.k = IF f.k = 9 THEN 1 ELSE f.k + 1,
                                           !.pc = IF f.k = 9 THEN "prod" ELSE "alloc"])
              /\ UNCHANGED <<mem, epc, status, err>>
  /\ UNCHANGED <<op, inp, arena2, ops, api>>

\* lines 134-153: the operand sums of product k, then the recursive call
RecProduct ==
  /\ Running /\ Top.pc = "prod"
  /\ LET f    == Top
         st   == ProductPrep([mem |-> mem, ops |-> ops], f, f.k)
         args == ProductArgs(f, f.k)
     IN  IF ~ProductDimsOk(f, f.k)
         THEN /\ Fail(Throw("invalid_argument", "mat_add: dimension mismatch"), mem)
              /\ ops' = ops
         ELSE /\ mem' = st.mem
              /\ ops' = st.ops
              /\ stack' = Append(SetTop([f EXCEPT !.k = f.k + 1,
                                                  !.pc = IF f.k = 7 THEN "combine"
                                                         ELSE "prod"]),
                                 Frame(args[1], args[2], args[3], arena.off_bytes))
              /\ UNCHANGED <<epc, status, err>>
  /\ UNCHANGED <<op, inp, arena, arena2, api>>

\* lines 155-181: C11, C12, C21, C22 from M1..M7
RecCombine ==
  /\ Running /\ Top.pc = "combine"
  /\ LET st == Combine([mem |-> mem, ops |-> ops], Top)
     IN  /\ mem' = st.mem
         /\ ops' = st.ops
  /\ stack' = SetTop([Top EXCEPT !.pc = "rollback"])
  /\ UNCHANGED <<op, inp, arena, arena2, epc, status, err, api>>

\* line 183: arena.rollback(base), and the return
RecReturn ==
  /\ Running /\ Top.pc = "rollback"
  /\ LET r == rollback(arena, Top.base)
     IN  IF ~r.ok
         THEN /\ Fail(Throw("invalid_argument", "ScratchArena::rollback: mark out of range"), mem)
              /\ arena' = arena
         ELSE /\ Return(mem)
              /\ arena' = r.arena
  /\ UNCHANGED <<op, inp, arena2, ops, api>>

(***************************************************************************)
(* The entry points: gemm_naive, gemm_strassen_pow2_prealloc and           *)
(* gemm_strassen, called on the caller's views A, B, C (Matrix::view(),    *)
(* contiguous row-major).                                                  *)
(***************************************************************************)
VA == View("A", 0, inp.Ar, inp.Ac, inp.Ac)
VB == View("B", 0, inp.Br, inp.Bc, inp.Bc)
VC == View("C", 0, inp.Cr, inp.Cc, inp.Cc)
Padded(buf, np) == View(buf, 0, np, np, np)

UnchangedEnv == UNCHANGED <<op, inp, arena2, api>>

\* naive.hpp:44-50
NaiveCall ==
  /\ op = "gemm_naive" /\ status = "running" /\ epc = "start"
  /\ LET r == gemm_naive_impl([mem |-> mem, ops |-> ops], VA, VB, VC)
     IN  /\ mem' = r.mem
         /\ ops' = r.ops
         /\ err' = r.err
         /\ status' = IF r.err = NoErr THEN "returned" ELSE "failed"
  /\ epc' = "done"
  /\ UNCHANGED <<arena, stack>>
  /\ UnchangedEnv

\* mutant: the arena must be sized exactly, as an extra precondition
PreallocCheck_Sized(A, B, C) ==
  IF A.cols # B.rows
  THEN Throw("invalid_argument", "gemm_strassen: A.cols != B.rows")
  ELSE IF C.rows # A.rows \/ C.cols # B.cols
  THEN Throw("invalid_argument", "gemm_strassen: C dims mismatch")
  ELSE IF A.rows # A.cols \/ B.rows # B.cols \/ C.rows # C.cols
  THEN Throw("invalid_argument", "gemm_strassen: square only")
  ELSE IF A.rows # B.rows \/ A.rows # C.rows
  THEN Throw("invalid_argument", "gemm_strassen: size mismatch")
  ELSE IF ~is_power_of_two(A.rows)
  THEN Throw("invalid_argument", "gemm_strassen_pow2_prealloc: n must be power of two")
  ELSE IF arena.cap_bytes # ScratchBytesNat(A.rows, SizeofT)
  THEN Throw("invalid_argument", "gemm_strassen_pow2_prealloc: arena size")
  ELSE NoErr

\* mutant: the power-of-two test is forgotten
PreallocCheck_AnyN(A, B, C) ==
  IF A.cols # B.rows
  THEN Throw("invalid_argument", "gemm_strassen: A.cols != B.rows")
  ELSE IF C.rows # A.rows \/ C.cols # B.cols
  THEN Throw("invalid_argument", "gemm_strassen: C dims mismatch")
  ELSE IF A.rows # A.cols \/ B.rows # B.cols \/ C.rows # C.cols
  THEN Throw("invalid_argument", "gemm_strassen: square only")
  ELSE IF A.rows # B.rows \/ A.rows # C.rows
  THEN Throw("invalid_argument", "gemm_strassen: size mismatch")
  ELSE NoErr

PreallocCheck(A, B, C) ==
  IF A.cols # B.rows
  THEN Throw("invalid_argument", "gemm_strassen: A.cols != B.rows")
  ELSE IF C.rows # A.rows \/ C.cols # B.cols
  THEN Throw("invalid_argument", "gemm_strassen: C dims mismatch")
  ELSE IF A.rows # A.cols \/ B.rows # B.cols \/ C.rows # C.cols
  THEN Throw("invalid_argument", "gemm_strassen: square only")
  ELSE IF A.rows # B.rows \/ A.rows # C.rows
  THEN Throw("invalid_argument", "gemm_strassen: size mismatch")
  ELSE IF ~is_power_of_two(A.rows)
  THEN Throw("invalid_argument", "gemm_strassen_pow2_prealloc: n must be power of two")
  ELSE NoErr

\* strassen.hpp:190-204, up to the call of strassen_rec
PreallocCall ==
  /\ op = "gemm_strassen_pow2_prealloc" /\ status = "running" /\ epc = "start"
  /\ LET e == PreallocCheck(VA, VB, VC)
     IN  IF e # NoErr
         THEN Fail(e, mem)
         ELSE /\ stack' = <<Frame(VA, VB, VC, arena.off_bytes)>>
              /\ epc' = "rec"
              /\ UNCHANGED <<mem, status, err>>
  /\ UNCHANGED <<arena, ops>>
  /\ UnchangedEnv

\* mutant: the padded matrices are filled with ones
ZeroFill_Ones(m, v) == [x \in ViewCells(v) |-> 1] @@ m

\* Ap.fill(T{}) and friends
ZeroFill(m, v) == [x \in ViewCells(v) |-> 0] @@ m

\* row-major positions 1..n*n of the copy loops, and the first position whose
\* bounds-checked accesses throw (n*n + 1 when none does)
LoopRow(n, q) == (q - 1) \div n
LoopCol(n, q) == (q - 1) % n
FirstThrow(n, views) ==
  LET bad == {q \in 1..(n * n) :
                \E v \in views : ~InRange(v, LoopRow(n, q), LoopCol(n, q))}
  IN  IF bad = {} THEN n * n + 1 ELSE CHOOSE q \in bad : \A p \in bad : q <= p

\* lines 236-237: Ap(i,j) = A(i,j); Bp(i,j) = B(i,j); the loop stops at the
\* first access out of range.  Ap, Bp are fresh buffers, so no read sees a write.
PadCopy(m, A, B, Ap, Bp, n) ==
  LET qa == FirstThrow(n, {Ap, A})
      qb == FirstThrow(n, {Bp, B})
      stop == IF qa <= qb THEN qa ELSE qb
      \* Ap(i,j) is written at positions < stop, and at stop when B is what throws
      wa == {q \in 1..(n * n) : q < stop \/ (q = stop /\ qa > qb)}
      wb == {q \in 1..(n * n) : q < stop}
  IN  [ok |-> stop > n * n,
       mem |-> [x \in {Addr(Ap, LoopRow(n, q), LoopCol(n, q)) : q \in wa} |->
                  m[Addr(A, RowOf(Ap, x), ColOf(Ap, x))]]
               @@ [x \in {Addr(Bp, LoopRow(n, q), LoopCol(n, q)) : q \in wb} |->
                  m[Addr(B, RowOf(Bp, x), ColOf(Bp, x))]]
               @@ m]

\* lines 242-243: C(i,j) = Cp(i,j); the loop stops at the first access out of
\* range, with the elements before it already written
CopyBack(m, C, Cp, n) ==
  LET stop == FirstThrow(n, {C, Cp})
  IN  [ok |-> stop > n * n,
       mem |-> [x \in {Addr(C, LoopRow(n, q), LoopCol(n, q)) : q \in 1..(stop - 1)} |->
                  m[Addr(Cp, RowOf(C, x), ColOf(C, x))]] @@ m]

OutOfRange == Throw("out_of_range", "MatrixView index out of range")

\* the padded dimension gemm_strassen works on (line 227)
PaddedDim(n) == IF is_power_of_two(n) THEN n ELSE next_power_of_two(n)

\* strassen.hpp:208-240, up to the call of strassen_rec
ConvCall ==
  /\ op = "gemm_strassen" /\ status = "running" /\ epc = "start"
  /\ LET n  == VA.rows
         np == PaddedDim(n)
         sb == [throws |-> FALSE, value |-> ScratchBytesNat(np, SizeofT)]
     IN  IF VA.rows # VA.cols \/ VB.rows # VB.cols \/ VC.rows # VC.cols
         THEN Fail(Throw("invalid_argument", "gemm_strassen: square only"), mem)
              /\ arena' = arena
         ELSE IF n = 0
         THEN /\ status' = "returned" /\ epc' = "done"
              /\ UNCHANGED <<mem, stack, err, arena>>
         ELSE IF ~inp.cfg.pad_to_power_of_two /\ ~is_power_of_two(n)
         THEN Fail(Throw("invalid_argument",
                         "gemm_strassen: n not power-of-two and padding disabled"), mem)
              /\ arena' = arena
         ELSE IF sb.throws
         THEN Fail(Throw("overflow_error", "strassen_scratch_bytes overflow"), mem)
              /\ arena' = arena
         ELSE IF np = n
         THEN /\ arena' = reset_capacity(arena, sb.value)
              /\ stack' = <<Frame(VA, VB, VC, 0)>>
              /\ epc' = "rec"
              /\ UNCHANGED <<mem, status, err>>
         ELSE LET z == ZeroFill(ZeroFill(ZeroFill(mem, Padded("Ap", np)),
                                         Padded("Bp", np)), Padded("Cp", np))
                  r == PadCopy(z, VA, VB, Padded("Ap", np), Padded("Bp", np), n)
              IN  IF ~r.ok
                  THEN Fail(OutOfRange, r.mem) /\ arena' = arena
                  ELSE /\ mem' = r.mem
                       /\ arena' = reset_capacity(arena, sb.value)
                       /\ stack' = <<Frame(Padded("Ap", np), Padded("Bp", np),
                                           Padded("Cp", np), 0)>>
                       /\ epc' = "rec_padded"
                       /\ UNCHANGED <<status, err>>
  /\ ops' = ops
  /\ UnchangedEnv

\* strassen.hpp:242-244: copy the top-left n x n block back and return
ConvCopyBack ==
  /\ op = "gemm_strassen" /\ status = "running" /\ epc = "copyback"
  /\ LET n == VA.rows
         r == CopyBack(mem, VC, Padded("Cp", PaddedDim(n)), n)
     IN  IF ~r.ok
         THEN Fail(OutOfRange, r.mem)
         ELSE /\ mem' = DropLocals(r.mem)
              /\ status' = "returned"
              /\ epc' = "done"
              /\ UNCHANGED <<stack, err>>
  /\ UNCHANGED <<arena, ops>>
  /\ UnchangedEnv

(***************************************************************************)
(* Inputs.  Entries are small integers generated from a seed; C starts     *)
(* with values no product can produce, so every write of C shows.          *)
(***************************************************************************)
\* the seed standing for main.cpp's sanity matrices
\* A2 = [[1,2],[3,4]] and B2 = [[5,6],[7,8]]
SanitySeed == 0 - 1

ValA(seed, r, c) ==
  IF seed = SanitySeed THEN 2 * r + c + 1
  ELSE (((seed + 1) * (3 * r + 5 * c + 1) + r * c) % 5) - 2
ValB(seed, r, c) ==
  IF seed = SanitySeed THEN 2 * r + c + 5
  ELSE (((seed + 2) * (2 * r + 7 * c + 3) + r + seed) % 5) - 2
ValC(r, c) == 1000 + 10 * r + c

ScalarTypes ==
  { [size |-> 4, align |-> 4],      \* float
    [size |-> 8, align |-> 8],      \* double
    [size |-> 16, align |-> 8] }    \* std::complex<double>

Seeds == 0..MaxSeed
Dims == 0..MaxN
EntryPoints == {"gemm_naive", "gemm_strassen_pow2_prealloc", "gemm_strassen"}

\* arena capacities a caller of the pre-sized variant may bring
CapChoices(n, T) ==
  LET exact == ScratchBytesNat(n, T.size)
  IN  {9 * (n \div 2) * (n \div 2) * T.size, exact - 1, exact, exact + 16}

Input(ar, ac, br, bc, cr, cc, seed, leaf, pad, T, has_ops, cap0, off0) ==
  [Ar |-> ar, Ac |-> ac, Br |-> br, Bc |-> bc, Cr |-> cr, Cc |-> cc,
   seed |-> seed, cfg |-> [leaf_size |-> leaf, pad_to_power_of_two |-> pad],
   T |-> T, has_ops |-> has_ops, cap0 |-> cap0, off0 |-> off0]

\* the caller's matrices before the call
InitMem ==
  [x \in ViewCells(VA) |-> ValA(inp.seed, RowOf(VA, x), ColOf(VA, x))]
  @@ [x \in ViewCells(VB) |-> ValB(inp.seed, RowOf(VB, x), ColOf(VB, x))]
  @@ [x \in ViewCells(VC) |-> ValC(RowOf(VC, x), ColOf(VC, x))]

Idle == [kind |-> "none"]

Start(o, i) ==
  /\ op = o
  /\ inp = i
  /\ mem = InitMem
  /\ arena = [buf |-> "arena", cap_bytes |-> i.cap0, off_bytes |-> i.off0]
  /\ arena2 = [buf |-> "arena2", cap_bytes |-> 0, off_bytes |-> 0]
  /\ stack = <<>>
  /\ epc = "start"
  /\ status = "running"
  /\ err = NoErr
  /\ ops = [mul |-> 0, add |-> 0]
  /\ api = Idle

Near(n) == {n - 1, n, n + 1} \cap Dims

\* three n x n views, every configuration
InitSquare ==
  \E o \in EntryPoints, n \in Dims \ {0}, seed \in Seeds, leaf \in Dims,
     T \in ScalarTypes, has_ops \in BOOLEAN :
    \E pad \in (IF o = "gemm_strassen" THEN BOOLEAN ELSE {TRUE}) :
      \E cap0 \in (IF o = "gemm_strassen_pow2_prealloc"
                   THEN CapChoices(n, T) ELSE {0}) :
        \E off0 \in (IF o = "gemm_strassen_pow2_prealloc"
                     THEN {0, 3 * T.size} \cap 0..cap0 ELSE {0}) :
          Start(o, Input(n, n, n, n, n, n, seed, leaf, pad, T, has_ops, cap0, off0))

\* shapes that differ by at most one from a base size, one configuration
InitShapes ==
  \E o \in EntryPoints, ar \in Dims, leaf \in {1, MaxN} :
    \E ac \in Near(ar), br \in Near(ar), bc \in Near(ar),
       cr \in Near(ar), cc \in Near(ar) :
      \E pad \in (IF o = "gemm_strassen" THEN BOOLEAN ELSE {TRUE}) :
        LET T == [size |-> 8, align |-> 8]
        IN  Start(o, Input(ar, ac, br, bc, cr, cc, 0, leaf, pad, T, TRUE,
                           IF o = "gemm_strassen_pow2_prealloc"
                           THEN ScratchBytesNat(ar, T.size) ELSE 0,
                           0))

\* main.cpp's 2 x 2 sanity matrices, through every entry point
InitSanity ==
  \E o \in EntryPoints, leaf \in {1, 2}, has_ops \in BOOLEAN :
    \E pad \in (IF o = "gemm_strassen" THEN BOOLEAN ELSE {TRUE}) :
      LET T == [size |-> 8, align |-> 8]
      IN  Start(o, Input(2, 2, 2, 2, 2, 2, SanitySeed, leaf, pad, T, has_ops,
                         IF o = "gemm_strassen_pow2_prealloc"
                         THEN ScratchBytesNat(2, T.size) ELSE 0,
                         0))

Init == InitSquare \/ InitShapes \/ InitSanity

Next ==
  \/ NaiveCall
  \/ PreallocCall
  \/ ConvCall
  \/ ConvCopyBack
  \/ RecReject
  \/ RecLeaf
  \/ RecSplit
  \/ RecAlloc
  \/ RecProduct
  \/ RecCombine
  \/ RecReturn

Spec == Init /\ [][Next]_vars

(***************************************************************************)
(* The sizing policy on its own: strassen_scratch_bytes<T>(n) for n near   *)
(* the powers of two of a 32-bit and of a 64-bit std::size_t.              *)
(***************************************************************************)
IdleEngine(T) ==
  /\ inp = [T |-> T]
  /\ mem = <<>>
  /\ stack = <<>>
  /\ epc = "done"
  /\ status = "idle"
  /\ err = NoErr
  /\ ops = [mul |-> 0, add |-> 0]

InitBytes ==
  \E bits \in {32, 64}, d \in {0, 1}, T \in ScalarTypes :
    \E k \in 0..(bits - 1) :
      /\ op = "strassen_scratch_bytes"
      /\ IdleEngine(T)
      /\ arena = [buf |-> "arena", cap_bytes |-> 0, off_bytes |-> 0]
      /\ arena2 = [buf |-> "arena2", cap_bytes |-> 0, off_bytes |-> 0]
      /\ api = [kind |-> "scratch_bytes", size_bits |-> bits, pc |-> "call",
                n |-> AddW(Pow2W(k, U64Limbs), FromNat(d, U64Limbs)),
                result |-> [throws |-> FALSE, value |-> FromNat(0, U64Limbs)]]

ScratchBytesCall ==
  /\ api.kind = "scratch_bytes" /\ api.pc = "call"
  /\ api' = [api EXCEPT !.pc = "done",
                        !.result = strassen_scratch_bytes(api.n, SizeofT, api.size_bits)]
  /\ UNCHANGED <<op, inp, mem, arena, arena2, stack, epc, status, err, ops>>

NextBytes == ScratchBytesCall

SpecBytes == InitBytes /\ [][NextBytes]_vars

(***************************************************************************)
(* The arena on its own: a caller driving two unrelated ScratchArena       *)
(* instances, holding the latest mark taken from each (-1: none yet).      *)
(* api.last records the last call: its target, its arguments, the target's *)
(* offset before the call and whether it returned normally.                *)
(***************************************************************************)
MaxArenaCap == 32

ArenaOf(t) == IF t = 1 THEN arena ELSE arena2
SetArena(t, a) ==
  /\ arena' = (IF t = 1 THEN a ELSE arena)
  /\ arena2' = (IF t = 1 THEN arena2 ELSE a)
Last(call, t, from, m, before, ok) ==
  [call |-> call, target |-> t, from |-> from, m |-> m, before |-> before, ok |-> ok]

InitArena ==
  \E T \in ScalarTypes :
    /\ op = "arena"
    /\ IdleEngine(T)
    /\ arena = [buf |-> "arena", cap_bytes |-> 0, off_bytes |-> 0]
    /\ arena2 = [buf |-> "arena2", cap_bytes |-> 0, off_bytes |-> 0]
    /\ api = [kind |-> "arena", mark1 |-> -1, mark2 |-> -1,
              last |-> Last("none", 0, 0, 0, 0, TRUE)]

ArenaReset ==
  /\ api.kind = "arena"
  /\ \E t \in {1, 2}, cap \in {0, MaxArenaCap} :
       /\ SetArena(t, reset_capacity(ArenaOf(t), cap))
       /\ api' = [api EXCEPT !.last = Last("reset_capacity", t, 0, cap,
                                           ArenaOf(t).off_bytes, TRUE)]
  /\ UNCHANGED <<op, inp, mem, stack, epc, status, err, ops>>

ArenaAlloc ==
  /\ api.kind = "arena"
  /\ \E t \in {1, 2}, rows \in 0..2, cols \in 0..2 :
       LET r == alloc_matrix(ArenaOf(t), rows, cols)
       IN  /\ SetArena(t, r.arena)
           /\ api' = [api EXCEPT !.last = Last("alloc_matrix", t, 0, rows * cols,
                                               ArenaOf(t).off_bytes, r.ok)]
  /\ UNCHANGED <<op, inp, mem, stack, epc, status, err, ops>>

ArenaMark ==
  /\ api.kind = "arena"
  /\ \E t \in {1, 2} :
       api' = [api EXCEPT !.mark1 = IF t = 1 THEN mark(arena) ELSE @,
                          !.mark2 = IF t = 2 THEN mark(arena2) ELSE @,
                          !.last = Last("mark", t, 0, 0, ArenaOf(t).off_bytes, TRUE)]
  /\ UNCHANGED <<op, inp, mem, arena, arena2, stack, epc, status, err, ops>>

\* rollback(m) on arena t with the mark held from arena `from`
ArenaRollback ==
  /\ api.kind = "arena"
  /\ \E t \in {1, 2}, from \in {1, 2} :
       LET m == IF from = 1 THEN api.mark1 ELSE api.mark2
           r == rollback(ArenaOf(t), m)
       IN  /\ m >= 0
           /\ SetArena(t, r.arena)
           /\ api' = [api EXCEPT !.last = Last("rollback", t, from, m,
                                               ArenaOf(t).off_bytes, r.ok)]
  /\ UNCHANGED <<op, inp, mem, stack, epc, status, err, ops>>

NextArena == ArenaReset \/ ArenaAlloc \/ ArenaMark \/ ArenaRollback

SpecArena == InitArena /\ [][NextArena]_vars

(***************************************************************************)
(* One ScratchArena driven through reset_capacity, alloc_matrix, mark and  *)
(* rollback, with the arguments and the result of the last call kept in    *)
(* api: dimensions up to 2^30 are requested, so that rows * cols *         *)
(* sizeof(T) reaches the width of std::size_t.                             *)
(***************************************************************************)
HugeDim == 2^30
AllocDims == ((0..2) \X (0..2)) \cup ({1, HugeDim} \X {HugeDim})
AllocCaps == {0, MaxArenaCap \div 2, MaxArenaCap}
NoView == View("null", 0, 0, 0, 0)

\* what the last call was and what it returned
Called(call, before, rows, cols, ok, view) ==
  [kind |-> "alloc", held |-> api.held, call |-> call, before |-> before,
   rows |-> rows, cols |-> cols, ok |-> ok, view |-> view]

InitAlloc ==
  \E T \in ScalarTypes :
    /\ op = "alloc"
    /\ IdleEngine(T)
    /\ arena = [buf |-> "arena", cap_bytes |-> 0, off_bytes |-> 0]
    /\ arena2 = [buf |-> "arena2", cap_bytes |-> 0, off_bytes |-> 0]
    /\ api = [kind |-> "alloc", held |-> 0, call |-> "none", before |-> 0,
              rows |-> 0, cols |-> 0, ok |-> TRUE, view |-> NoView]

AllocReset ==
  /\ api.kind = "alloc"
  /\ \E cap \in AllocCaps :
       /\ arena' = reset_capacity(arena, cap)
       /\ api' = Called("reset_capacity", arena.off_bytes, 0, 0, TRUE, NoView)
  /\ UNCHANGED <<op, inp, mem, arena2, stack, epc, status, err, ops>>

AllocMatrix ==
  /\ api.kind = "alloc"
  /\ \E d \in AllocDims :
       LET r == alloc_matrix(arena, d[1], d[2])
       IN  /\ arena' = r.arena
           /\ api' = Called("alloc_matrix", arena.off_bytes, d[1], d[2], r.ok, r.view)
  /\ UNCHANGED <<op, inp, mem, arena2, stack, epc, status, err, ops>>

AllocMark ==
  /\ api.kind = "alloc"
  /\ api' = [Called("mark", arena.off_bytes, 0, 0, TRUE, NoView)
               EXCEPT !.held = mark(arena)]
  /\ UNCHANGED <<op, inp, mem, arena, arena2, stack, epc, status, err, ops>>

AllocRollback ==
  /\ api.kind = "alloc"
  /\ LET r == rollback(arena, api.held)
     IN  /\ arena' = r.arena
         /\ api' = Called("rollback", arena.off_bytes, 0, 0, r.ok, NoView)
  /\ UNCHANGED <<op, inp, mem, arena2, stack, epc, status, err, ops>>

NextAlloc == AllocReset \/ AllocMatrix \/ AllocMark \/ AllocRollback

SpecAlloc == InitAlloc /\ [][NextAlloc]_vars

(***************************************************************************)
(* matrix.hpp on its own: a caller holding the view P of a Matrix and a    *)
(* view S derived from it by subview calls, reading and writing elements   *)
(* through both.  api.r0 / api.c0 are the coordinates in P at which S was  *)
(* requested (summed over nested subviews), api.depth the number of        *)
(* subview calls behind S, api.last the last call and its outcome.  A run  *)
(* takes subviews and then writes one element.                             *)
(***************************************************************************)
MaxView == 3      \* the Matrix is at most MaxView x MaxView

Written == api.last.call \in {"write_S", "write_P"}

ViewLast(call, r, c, x, ok) == [call |-> call, r |-> r, c |-> c, x |-> x, ok |-> ok]

\* Matrix<T> M(rows, cols): contiguous row-major, stride = cols
MatrixOf(buf, rows, cols) == View(buf, 0, rows, cols, cols)

InitView ==
  \E T \in ScalarTypes, rows \in 1..MaxView, cols \in 1..MaxView :
    /\ op = "view"
    /\ inp = [T |-> T]
    /\ mem = [x \in ViewCells(MatrixOf("M", rows, cols)) |->
                ValC(RowOf(MatrixOf("M", rows, cols), x),
                     ColOf(MatrixOf("M", rows, cols), x))]
    /\ stack = <<>> /\ epc = "done" /\ status = "idle" /\ err = NoErr
    /\ ops = [mul |-> 0, add |-> 0]
    /\ arena = [buf |-> "arena", cap_bytes |-> 0, off_bytes |-> 0]
    /\ arena2 = [buf |-> "arena2", cap_bytes |-> 0, off_bytes |-> 0]
    /\ api = [kind |-> "view", P |-> MatrixOf("M", rows, cols),
              S |-> MatrixOf("M", rows, cols), r0 |-> 0, c0 |-> 0, depth |-> 0,
              last |-> ViewLast("none", 0, 0, 0, TRUE)]

\* S = from.subview(r0, c0, rcount, ccount), from being P or the current S
ViewSubview ==
  /\ api.kind = "view" /\ ~Written
  /\ \E nested \in BOOLEAN, r0 \in 0..(MaxView - 1), c0 \in 0..(MaxView - 1),
        rcount \in 1..MaxView, ccount \in 1..MaxView :
       LET from == IF nested THEN api.S ELSE api.P
       IN  /\ nested => api.depth = 1
           /\ IF subview_ok(from, r0, c0, rcount, ccount)
              THEN api' = [api EXCEPT
                             !.S = subview(from, r0, c0, rcount, ccount),
                             !.r0 = (IF nested THEN api.r0 ELSE 0) + r0,
                             !.c0 = (IF nested THEN api.c0 ELSE 0) + c0,
                             !.depth = IF nested THEN 2 ELSE 1,
                             !.last = ViewLast("subview", 0, 0, 0, TRUE)]
              ELSE api' = [api EXCEPT !.last = ViewLast("subview", 0, 0, 0, FALSE)]
  /\ UNCHANGED <<op, inp, mem, arena, arena2, stack, epc, status, err, ops>>

\* v(r, c) = x through the view v: S ("write_S") or P ("write_P")
ViewWrite ==
  /\ api.kind = "view" /\ ~Written
  /\ \E call \in {"write_S", "write_P"}, r \in 0..(MaxView - 1), c \in 0..(MaxView - 1) :
       LET v == IF call = "write_S" THEN api.S ELSE api.P
           x == 1
       IN  IF InRange(v, r, c)
           THEN /\ mem' = Store(mem, v, r, c, x)
                /\ api' = [api EXCEPT !.last = ViewLast(call, r, c, x, TRUE)]
           ELSE /\ mem' = mem
                /\ api' = [api EXCEPT !.last = ViewLast(call, r, c, x, FALSE)]
  /\ UNCHANGED <<op, inp, arena, arena2, stack, epc, status, err, ops>>

NextView == ViewSubview \/ ViewWrite

SpecView == InitView /\ [][NextView]_vars

(***************************************************************************)
(* aligned_alloc.hpp: AlignedBuffer and the process-wide byte counters,    *)
(* used from one thread.  A heap state h is [bufs, heap, cur, peak]:       *)
(* bufs[i] is the object i, [alive, ptr_, tracked_bytes_] with ptr_ = 0    *)
(* for nullptr; heap[b] is the size requested for the live block b (0: the *)
(* block is free); cur and peak are tracked_current_bytes and              *)
(* tracked_peak_bytes.                                                     *)
(***************************************************************************)
Buffers == {1, 2}
Blocks == {1, 2}
AllocSizes == {0, 8, 24}

EmptyBuffer == [alive |-> TRUE, ptr_ |-> 0, tracked_bytes_ |-> 0]
DeadBuffer == [alive |-> FALSE, ptr_ |-> 0, tracked_bytes_ |-> 0]

\* fetch_add, then raise the peak to the new value if it is larger
tracked_add(h, n) ==
  LET cur == h.cur + n
  IN  [h EXCEPT !.cur = cur, !.peak = IF cur > h.peak THEN cur ELSE h.peak]

\* mutant: the counter is left alone
tracked_sub_Skip(h, n) == h

tracked_sub(h, n) == [h EXCEPT !.cur = h.cur - n]

\* ::operator delete(ptr_)
Delete(h, b) == [h EXCEPT !.heap[b] = 0]

release(h, i) ==
  IF h.bufs[i].ptr_ = 0 THEN h
  ELSE LET s == Delete(tracked_sub(h, h.bufs[i].tracked_bytes_), h.bufs[i].ptr_)
       IN  [s EXCEPT !.bufs[i].ptr_ = 0, !.bufs[i].tracked_bytes_ = 0]

\* ::operator new(bytes, align): a free block, or std::bad_alloc (got = FALSE)
allocate(h, i, bytes, got) ==
  LET s == release(h, i)
  IN  IF bytes = 0 THEN [ok |-> TRUE, h |-> s]
      ELSE IF ~got THEN [ok |-> FALSE, h |-> s]
      ELSE LET b == CHOOSE x \in Blocks : s.heap[x] = 0
               t == [s EXCEPT !.heap[b] = bytes,
                              !.bufs[i].ptr_ = b,
                              !.bufs[i].tracked_bytes_ = bytes]
           IN  [ok |-> TRUE, h |-> tracked_add(t, bytes)]

move_from(h, i, o) ==
  [h EXCEPT !.bufs[i].ptr_ = h.bufs[o].ptr_,
            !.bufs[i].tracked_bytes_ = h.bufs[o].tracked_bytes_,
            !.bufs[o].ptr_ = 0,
            !.bufs[o].tracked_bytes_ = 0]

\* the heap state of the model, and the record of the last operation: its
\* arguments, the counters and the sizes held by target and source before it
Heap == [bufs |-> api.bufs, heap |-> api.heap, cur |-> api.cur, peak |-> api.peak]
BufLast(call, i, o, bytes, ok) ==
  [call |-> call, target |-> i, src |-> o, bytes |-> bytes, ok |-> ok,
   cur0 |-> api.cur, peak0 |-> api.peak,
   held0 |-> api.bufs[i].tracked_bytes_,
   srcheld0 |-> IF o \in Buffers THEN api.bufs[o].tracked_bytes_ ELSE 0]
SetHeap(h, l) ==
  api' = [kind |-> "buffer", bufs |-> h.bufs, heap |-> h.heap,
          cur |-> h.cur, peak |-> h.peak, last |-> l]
BufferFrame == UNCHANGED <<op, inp, mem, arena, arena2, stack, epc, status, err, ops>>

InitBuffer ==
  /\ op = "buffer"
  /\ IdleEngine([size |-> 8, align |-> 8])
  /\ arena = [buf |-> "arena", cap_bytes |-> 0, off_bytes |-> 0]
  /\ arena2 = [buf |-> "arena2", cap_bytes |-> 0, off_bytes |-> 0]
  /\ api = [kind |-> "buffer", bufs |-> [i \in Buffers |-> DeadBuffer],
            heap |-> [b \in Blocks |-> 0], cur |-> 0, peak |-> 0,
            last |-> [call |-> "none", target |-> 0, src |-> 0, bytes |-> 0,
                      ok |-> TRUE, cur0 |-> 0, peak0 |-> 0, held0 |-> 0,
                      srcheld0 |-> 0]]

\* AlignedBuffer() and AlignedBuffer(bytes)
BufConstruct ==
  /\ api.kind = "buffer"
  /\ \E i \in Buffers, sized \in BOOLEAN, bytes \in AllocSizes, got \in BOOLEAN :
       /\ ~api.bufs[i].alive
       /\ ~sized => (bytes = 0 /\ got)
       /\ (bytes = 0) => got
       /\ LET h == [Heap EXCEPT !.bufs[i] = EmptyBuffer]
              r == IF sized THEN allocate(h, i, bytes, got) ELSE [ok |-> TRUE, h |-> h]
          IN  \* a constructor that throws leaves no object behind
              SetHeap(IF r.ok THEN r.h ELSE [r.h EXCEPT !.bufs[i] = DeadBuffer],
                      BufLast("construct", i, 0, bytes, r.ok))
  /\ BufferFrame

BufAllocate ==
  /\ api.kind = "buffer"
  /\ \E i \in Buffers, bytes \in AllocSizes, got \in BOOLEAN :
       /\ api.bufs[i].alive
       /\ (bytes = 0) => got
       /\ LET r == allocate(Heap, i, bytes, got)
          IN  SetHeap(r.h, BufLast("allocate", i, 0, bytes, r.ok))
  /\ BufferFrame

BufRelease ==
  /\ api.kind = "buffer"
  /\ \E i \in Buffers :
       /\ api.bufs[i].alive
       /\ SetHeap(release(Heap, i), BufLast("release", i, 0, 0, TRUE))
  /\ BufferFrame

\* AlignedBuffer(AlignedBuffer&& o)
BufMoveConstruct ==
  /\ api.kind = "buffer"
  /\ \E i \in Buffers, o \in Buffers :
       /\ ~api.bufs[i].alive /\ api.bufs[o].alive
       /\ SetHeap(move_from([Heap EXCEPT !.bufs[i] = EmptyBuffer], i, o),
                  BufLast("move_construct", i, o, 0, TRUE))
  /\ BufferFrame

\* operator=(AlignedBuffer&& o)
BufMoveAssign ==
  /\ api.kind = "buffer"
  /\ \E i \in Buffers, o \in Buffers :
       /\ api.bufs[i].alive /\ api.bufs[o].alive
       /\ SetHeap(IF i # o THEN move_from(release(Heap, i), i, o) ELSE Heap,
                  BufLast("move_assign", i, o, 0, TRUE))
  /\ BufferFrame

\* ~AlignedBuffer()
BufDestroy ==
  /\ api.kind = "buffer"
  /\ \E i \in Buffers :
       /\ api.bufs[i].alive
       /\ SetHeap([release(Heap, i) EXCEPT !.bufs[i] = DeadBuffer],
                  BufLast("destroy", i, 0, 0, TRUE))
  /\ BufferFrame

NextBuffer ==
  \/ BufConstruct \/ BufAllocate \/ BufRelease
  \/ BufMoveConstruct \/ BufMoveAssign \/ BufDestroy

SpecBuffer == InitBuffer /\ [][NextBuffer]_vars

(***************************************************************************)
(* aligned_alloc.hpp: tracked_add and tracked_sub called from several      *)
(* threads.  Every atomic operation is one step.  api.cur and api.peak are *)
(* the two atomics, api.hist the values peak has held (its modification    *)
(* order).  A thread th[t] runs the calls of prog one after the other;     *)
(* cur and pk are the locals of tracked_add, hi the largest cur one of its *)
(* finished tracked_add calls computed.  With memory_order_relaxed a load  *)
(* may return any value of the modification order that is not older than   *)
(* the last one the thread has seen; a read-modify-write always acts on    *)
(* the latest.  A spurious failure of compare_exchange_weak changes        *)
(* nothing (pk already holds the value of peak): it is a stuttering step.  *)
(***************************************************************************)
Threads == {1, 2}
SizeOf(t) == IF t = 1 THEN 8 ELSE 24

\* allocate, release, allocate again of one buffer, cut after 1, 2 or 3 calls
Program(t, len) ==
  SubSeq(<< <<"add", SizeOf(t)>>, <<"sub", SizeOf(t)>>, <<"add", SizeOf(t)>> >>, 1, len)

\* mutant: the peak is believed to be up to date always
NeedsRaise_Never(cur, pk) == FALSE

\* the loop test before the compare-exchange: cur > pk
NeedsRaise(cur, pk) == cur > pk

\* compare_exchange_weak(pk, cur) on the value peak holds
CompareExchange(peak, pk, cur) ==
  IF peak = pk THEN [ok |-> TRUE, peak |-> cur, pk |-> pk]
  ELSE [ok |-> FALSE, peak |-> peak, pk |-> peak]

InitTracked ==
  \E len \in [Threads -> 1..3] :
    /\ op = "tracked"
    /\ IdleEngine([size |-> 8, align |-> 8])
    /\ arena = [buf |-> "arena", cap_bytes |-> 0, off_bytes |-> 0]
    /\ arena2 = [buf |-> "arena2", cap_bytes |-> 0, off_bytes |-> 0]
    /\ api = [kind |-> "tracked", cur |-> 0, peak |-> 0, hist |-> {0},
              len |-> len, contended |-> FALSE,
              th |-> [t \in Threads |->
                        [prog |-> Program(t, len[t]), pc |-> "idle",
                         cur |-> 0, pk |-> 0, hi |-> 0]]]

Calling(t, name, at) ==
  /\ api.kind = "tracked"
  /\ api.th[t].pc = at
  /\ api.th[t].prog # <<>>
  /\ Head(api.th[t].prog)[1] = name

\* the call returns
Finish(th) == [th EXCEPT !.pc = "idle", !.prog = Tail(@),
                         !.hi = IF th.cur > @ THEN th.cur ELSE @]

\* tracked_sub: fetch_sub(n)
TrackedSub(t) ==
  /\ Calling(t, "sub", "idle")
  /\ api' = [api EXCEPT !.cur = @ - Head(api.th[t].prog)[2],
                        !.th[t].prog = Tail(@)]
  /\ BufferFrame

\* auto cur = fetch_add(n) + n
TrackedFetchAdd(t) ==
  /\ Calling(t, "add", "idle")
  /\ api' = [api EXCEPT !.cur = @ + Head(api.th[t].prog)[2],
                        !.th[t].cur = api.cur + Head(api.th[t].prog)[2],
                        !.th[t].pc = "added"]
  /\ BufferFrame

\* auto pk = load()
TrackedLoadPeak(t) ==
  /\ Calling(t, "add", "added")
  /\ \E v \in api.hist :
       /\ v >= api.th[t].pk
       /\ api' = [api EXCEPT !.th[t].pk = v, !.th[t].pc = "loop"]
  /\ BufferFrame

\* while (cur > pk && !compare_exchange_weak(pk, cur)) {}
TrackedLoop(t) ==
  /\ Calling(t, "add", "loop")
  /\ LET th == api.th[t]
         r  == CompareExchange(api.peak, th.pk, th.cur)
     IN  IF ~NeedsRaise(th.cur, th.pk)
         THEN api' = [api EXCEPT !.th[t] = Finish(th)]
         ELSE IF r.ok
         THEN api' = [api EXCEPT !.peak = r.peak, !.hist = @ \cup {r.peak},
                                 !.th[t] = Finish([th EXCEPT !.pk = r.peak])]
         ELSE api' = [api EXCEPT !.th[t].pk = r.pk, !.contended = TRUE]
  /\ BufferFrame

ThreadStep(t) ==
  TrackedSub(t) \/ TrackedFetchAdd(t) \/ TrackedLoadPeak(t) \/ TrackedLoop(t)

NextTracked ==
  \/ \E t \in Threads : TrackedSub(t)
  \/ \E t \in Threads : TrackedFetchAdd(t)
  \/ \E t \in Threads : TrackedLoadPeak(t)
  \/ \E t \in Threads : TrackedLoop(t)

\* every thread that can take a step eventually takes one
SpecTracked ==
  /\ InitTracked /\ [][NextTracked]_vars
  /\ \A t \in Threads : WF_vars(ThreadStep(t))

(***************************************************************************)
(* bench.cpp: the analytic operation counts.                               *)
(***************************************************************************)
ops_naive(n) ==
  [mul |-> n * n * n, add |-> n * n * (IF n > 0 THEN n - 1 ELSE 0)]

RECURSIVE ops_strassen(_, _)
ops_strassen(n, leaf) ==
  IF n <= leaf THEN ops_naive(n)
  ELSE LET m == n \div 2
           sub == ops_strassen(m, leaf)
       IN  [mul |-> 7 * sub.mul, add |-> 7 * sub.add + 18 * m * m]

(***************************************************************************)
(* Properties.                                                             *)
(***************************************************************************)
Presized == op = "gemm_strassen_pow2_prealloc"
Convenience == op = "gemm_strassen"
IsStrassen == Presized \/ Convenience
N == inp.Ar
Leaf == inp.cfg.leaf_size
Done == status \in {"returned", "failed"}

\* A, B and C are all N x N
AllSquareN ==
  /\ inp.Ac = N /\ inp.Br = N /\ inp.Bc = N /\ inp.Cr = N /\ inp.Cc = N

\* the pre-sized variant runs on an arena of exactly strassen_scratch_bytes(N)
ExactArena == Presized => inp.cap0 = ScratchBytesNat(N, SizeofT)

\* what gemm_naive leaves in C for the caller's A and B
NaiveOracle ==
  gemm_naive_impl([mem |-> InitMem, ops |-> [mul |-> 0, add |-> 0]], VA, VB, VC).mem
CEqualsNaive == \A x \in ViewCells(VC) : mem[x] = NaiveOracle[x]
CUnchanged == \A x \in ViewCells(VC) : mem[x] = ValC(RowOf(VC, x), ColOf(VC, x))

\* C1: for power-of-two N, leaf_size >= 1 and N x N integer inputs, both
\* Strassen entry points (the pre-sized one on an arena of
\* strassen_scratch_bytes(N) bytes) return with C equal to gemm_naive's result.
C1_StrassenEqualsNaive ==
  (/\ IsStrassen /\ AllSquareN /\ is_power_of_two(N) /\ Leaf >= 1
   /\ ExactArena /\ Done)
  => (status = "returned" /\ CEqualsNaive)

C1_Witness ==
  /\ Presized /\ AllSquareN /\ N = 4 /\ Leaf = 1 /\ ExactArena
  /\ status = "returned" /\ CEqualsNaive /\ ~CUnchanged

\* C2: for N not a power of two, padding enabled and leaf_size >= 1,
\* gemm_strassen on N x N inputs leaves the naive N x N product in C; while the
\* recursion runs on the padded copies, these hold A and B in their top-left
\* block and zero elsewhere, and C is written only by the final copy.
PaddedInputsOk ==
  LET np == PaddedDim(N)
  IN  \A i \in 0..(np - 1), j \in 0..(np - 1) :
        /\ Load(mem, Padded("Ap", np), i, j)
             = (IF i < N /\ j < N THEN Load(mem, VA, i, j) ELSE 0)
        /\ Load(mem, Padded("Bp", np), i, j)
             = (IF i < N /\ j < N THEN Load(mem, VB, i, j) ELSE 0)

C2_PaddedEqualsNaive ==
  (/\ Convenience /\ AllSquareN /\ N >= 1 /\ ~is_power_of_two(N)
   /\ inp.cfg.pad_to_power_of_two /\ Leaf >= 1)
  => /\ Done => (status = "returned" /\ CEqualsNaive)
     /\ epc = "rec_padded" =>
          /\ PaddedInputsOk /\ CUnchanged
          /\ stack[1].A.rows = next_power_of_two(N)

C2_Witness ==
  /\ Convenience /\ AllSquareN /\ N = 3 /\ inp.cfg.pad_to_power_of_two /\ Leaf = 1
  /\ status = "returned" /\ CEqualsNaive /\ ~CUnchanged

\* C3: one Strassen multiplication of power-of-two size with leaf_size >= 1 on
\* an initially empty arena of strassen_scratch_bytes(N) bytes never fails in
\* alloc_matrix, and used_bytes never exceeds strassen_scratch_bytes(N).
EmptyExactArena ==
  \/ Convenience
  \/ Presized /\ inp.off0 = 0 /\ inp.cap0 = ScratchBytesNat(N, SizeofT)

C3_ScratchFits ==
  (IsStrassen /\ EmptyExactArena /\ Leaf >= 1)
  => /\ err.kind # "bad_alloc"
     /\ arena.off_bytes <= ScratchBytesNat(PaddedDim(N), SizeofT)

\* two active frames with all eighteen scratch matrices allocated, 4-byte
\* scalars (every 1 x 1 allocation is padded to the 16-byte alignment)
C3_Witness ==
  /\ Presized /\ EmptyExactArena /\ AllSquareN /\ N = 4 /\ Leaf = 1
  /\ SizeofT = 4 /\ Len(stack) = 2 /\ Top.pc = "prod"
  /\ arena.off_bytes = 9 * 16 + 8 * 16 + 4

\* C4: a strassen_rec call that returns normally leaves used_bytes at its
\* value at the moment of the call, whatever that was, at every depth; and
\* every recursive call of one level starts at the same offset, the one
\* reached after that level's nine allocations.
ReturnsRestoreOffset ==
  (/\ stack # <<>> /\ Len(stack') < Len(stack) /\ status' # "failed")
  => arena'.off_bytes = Top.entry_off

AfterAllocs(f) == f.M[9].data + Half(f) * Half(f) * SizeofT

SiblingsShareOffset ==
  \A i \in 2..Len(stack) : stack[i].entry_off = AfterAllocs(stack[i - 1])

C4_ArenaRolledBack ==
  /\ [][ReturnsRestoreOffset]_vars
  /\ [](SiblingsShareOffset)
  /\ []((Presized /\ status = "returned") => arena.off_bytes = inp.off0)

C4_Witness ==
  /\ Presized /\ AllSquareN /\ N = 4 /\ Leaf = 1 /\ inp.off0 > 0
  /\ status = "returned" /\ arena.off_bytes = inp.off0

\* C5: with a counter, a Strassen multiplication of power-of-two size N with
\* leaf_size L >= 1 adds exactly ops_strassen(N, L) to it: the naive counts
\* N^3 and N^2*(N-1) for N <= L, else 7*mul(N/2) and 7*add(N/2) + 18*(N/2)^2.
C5_OpCounts ==
  (/\ IsStrassen /\ AllSquareN /\ is_power_of_two(N) /\ Leaf >= 1
   /\ inp.has_ops /\ status = "returned")
  => ops = ops_strassen(N, Leaf)

C5_Witness ==
  /\ IsStrassen /\ AllSquareN /\ N = 4 /\ Leaf = 1 /\ inp.has_ops
  /\ status = "returned" /\ ops = [mul |-> 49, add |-> 198]

\* C6 (as claimed): whenever non-empty A, B and C do not have compatible sizes, every
\* entry point fails with an invalid-argument (dimension) error and none
\* returns normally.
Compatible == inp.Ac = inp.Br /\ inp.Cr = inp.Ar /\ inp.Cc = inp.Bc

NonEmpty == \A d \in {inp.Ar, inp.Ac, inp.Br, inp.Bc, inp.Cr, inp.Cc} : d >= 1

C6_MismatchFails ==
  (op \in EntryPoints /\ NonEmpty /\ Done /\ ~Compatible)
  => (status = "failed" /\ err.kind = "invalid_argument")

\* C7 (as claimed): when an entry point fails on a precondition violation
\* (any failure other than arena exhaustion), no element of the caller's C
\* has been written.
C7_NoWriteOnFailure ==
  (op \in EntryPoints /\ status = "failed" /\ err.kind # "bad_alloc")
  => CUnchanged

C9_ExactOrOverflow ==
  (api.kind = "scratch_bytes" /\ api.pc = "done")
  => \/ api.result.throws
     \/ Resize(api.result.value, WideLimbs) = ScratchBytesExact(api.n, SizeofT)

\* C10 (as claimed): rollback with a mark taken from the other arena fails.
ForeignRollback ==
  api.kind = "arena" /\ api.last.call = "rollback" /\ api.last.from # api.last.target

C10_ForeignMarkFails == ForeignRollback => ~api.last.ok

\* C10 (amended): a mark is a bare offset.  rollback with a mark taken from
\* another arena fails exactly when the mark is greater than the target's
\* current offset, leaving the offset unchanged; otherwise it succeeds and
\* sets the target's offset to the mark.
C10_ForeignMarkIsAnOffset ==
  ForeignRollback
  => LET l == api.last
         off == ArenaOf(l.target).off_bytes
     IN  /\ l.ok <=> l.m <= l.before
         /\ l.ok => off = l.m
         /\ ~l.ok => off = l.before

C10_Witness ==
  /\ ForeignRollback /\ api.last.ok /\ api.last.m < api.last.before
  /\ ArenaOf(api.last.target).off_bytes = api.last.m

\* C11: rollback(m) with m greater than the current offset fails and leaves
\* the offset unchanged; with m <= the current offset it succeeds and sets the
\* offset to exactly m; mark() never changes the offset.
C11_RollbackAndMark ==
  api.kind = "arena"
  => LET l   == api.last
         off == ArenaOf(l.target).off_bytes
     IN  /\ l.call = "rollback"
            => /\ l.ok <=> l.m <= l.before
               /\ l.ok => off = l.m
               /\ ~l.ok => off = l.before
         /\ l.call = "mark" => (l.ok /\ off = l.before)

\* a rollback refused because its mark lies above the current offset
C11_Witness ==
  /\ api.kind = "arena" /\ api.last.call = "rollback"
  /\ ~api.last.ok /\ api.last.m > api.last.before
  /\ ArenaOf(api.last.target).off_bytes = api.last.before

\* C12 (as claimed): for rows, cols > 0, alloc_matrix succeeds exactly when
\* s + rows*cols*sizeof(T) <= capacity, s being the smallest multiple of
\* max(16, alignof(T)) at or above the offset; on success the view starts at s
\* and the offset becomes s + rows*cols*sizeof(T), on failure the offset is
\* unchanged; hence 0 <= used_bytes <= capacity_bytes always, and the offset
\* decreases only through rollback or reset_capacity.
AlignedStart(off) ==
  LET a == Max(16, inp.T.align) IN ((off + a - 1) \div a) * a

\* s + rows*cols*sizeof(T) as a mathematical value
AllocEndExact ==
  AddW(FromNat(AlignedStart(api.before), WideLimbs),
       MulW(MulW(FromNat(api.rows, WideLimbs), FromNat(api.cols, WideLimbs)),
            FromNat(SizeofT, WideLimbs)))

AllocFits == ~Gt(AllocEndExact, FromNat(arena.cap_bytes, WideLimbs))

AllocOutcome ==
  (api.call = "alloc_matrix" /\ api.rows > 0 /\ api.cols > 0)
  => /\ api.ok <=> AllocFits
     /\ api.ok => /\ api.view.data = AlignedStart(api.before)
                  /\ FromNat(arena.off_bytes, WideLimbs) = AllocEndExact
     /\ ~api.ok => arena.off_bytes = api.before

OffsetInCapacity == 0 <= arena.off_bytes /\ arena.off_bytes <= arena.cap_bytes

OffsetDecrease ==
  arena.off_bytes < api.before => api.call \in {"rollback", "reset_capacity"}

C12_AllocExactlyWhenFits ==
  api.kind = "alloc" => (AllocOutcome /\ OffsetInCapacity /\ OffsetDecrease)

\* C13: for N >= 1 not a power of two and any leaf_size, gemm_strassen with
\* padding disabled and gemm_strassen_pow2_prealloc on N x N operands fail with
\* an invalid-argument error; nothing is allocated from the arena, the
\* recursion is never entered and C is never written.
NotPow2Request ==
  /\ IsStrassen /\ AllSquareN /\ N >= 1 /\ ~is_power_of_two(N)
  /\ (Presized \/ ~inp.cfg.pad_to_power_of_two)

C13_NotPow2Fails ==
  NotPow2Request
  => /\ Done => (status = "failed" /\ err.kind = "invalid_argument")
     /\ arena.off_bytes = inp.off0 /\ arena.cap_bytes = inp.cap0
     /\ stack = <<>>
     /\ CUnchanged

\* the pre-sized variant refusing N = 3 although leaf_size >= N
C13_Witness ==
  /\ NotPow2Request /\ Presized /\ Leaf >= N
  /\ status = "failed" /\ err.kind = "invalid_argument"

\* C14: an in-bounds subview S of P (also a subview of a subview) keeps P's
\* stride, and S(r, c) is the storage cell P(r0 + r, c0 + c): a value written
\* through S is read back through P at the shifted coordinates, a value written
\* through P inside the rectangle is read back through S, and a write through
\* S changes no cell of P other than the one it addresses.
InRect(r, c) ==
  /\ api.r0 <= r /\ r < api.r0 + api.S.rows
  /\ api.c0 <= c /\ c < api.c0 + api.S.cols

SubviewAliasesParent ==
  api.kind = "view"
  => /\ api.S.stride = api.P.stride
     /\ \A r \in 0..(api.S.rows - 1), c \in 0..(api.S.cols - 1) :
          /\ Addr(api.S, r, c) = Addr(api.P, api.r0 + r, api.c0 + c)
          /\ Load(mem, api.S, r, c) = Load(mem, api.P, api.r0 + r, api.c0 + c)
     /\ (api.last.call = "write_S" /\ api.last.ok)
        => Load(mem, api.P, api.r0 + api.last.r, api.c0 + api.last.c) = api.last.x
     /\ (api.last.call = "write_P" /\ api.last.ok /\ InRect(api.last.r, api.last.c))
        => Load(mem, api.S, api.last.r - api.r0, api.last.c - api.c0) = api.last.x

WriteThroughSubviewIsLocal ==
  (api.kind = "view" /\ ~Written /\ api'.last.call = "write_S" /\ api'.last.ok)
  => \A r \in 0..(api.P.rows - 1), c \in 0..(api.P.cols - 1) :
       (r # api.r0 + api'.last.r \/ c # api.c0 + api'.last.c)
       => Load(mem', api.P, r, c) = Load(mem, api.P, r, c)

C14_SubviewSharesStorage ==
  [](SubviewAliasesParent) /\ [][WriteThroughSubviewIsLocal]_vars

\* a write through a subview of a subview that is narrower than its parent
\* and does not start at the parent's origin
C14_Witness ==
  /\ api.kind = "view" /\ api.depth = 2
  /\ api.last.call = "write_S" /\ api.last.ok
  /\ api.r0 > 0 /\ api.c0 > 0 /\ api.S.cols < api.S.stride
  /\ Load(mem, api.P, api.r0 + api.last.r, api.c0 + api.last.c) = api.last.x

\* C15 (as claimed): after any sequence of AlignedBuffer operations
\* current_bytes is the sum of the requested sizes of the buffers holding an
\* allocation and peak_bytes >= current_bytes never decreases; release on an
\* empty buffer changes nothing, allocate(0) leaves the buffer empty after
\* releasing any prior block, allocate on a non-empty buffer first subtracts
\* the old size, and a move (move-construct or move-assign) leaves the source
\* empty without changing the counters.
Holds(i) == api.bufs[i].alive /\ api.bufs[i].ptr_ # 0
RECURSIVE HeldSum(_)
HeldSum(S) ==
  IF S = {} THEN 0
  ELSE LET i == CHOOSE x \in S : TRUE
       IN  (IF Holds(i) THEN api.heap[api.bufs[i].ptr_] ELSE 0) + HeldSum(S \ {i})

CountersTrackBuffers ==
  LET l == api.last
      t == api.bufs[l.target]
  IN  /\ api.cur = HeldSum(Buffers)
      /\ api.peak >= api.cur /\ api.peak >= l.peak0
      /\ (l.call = "release" /\ l.held0 = 0)
         => (t = EmptyBuffer /\ api.cur = l.cur0 /\ api.peak = l.peak0)
      /\ (l.call = "allocate" /\ l.bytes = 0)
         => (t = EmptyBuffer /\ api.cur = l.cur0 - l.held0 /\ api.peak = l.peak0)
      /\ (l.call = "allocate" /\ l.bytes > 0 /\ l.ok)
         => /\ Holds(l.target) /\ t.tracked_bytes_ = l.bytes
            /\ api.cur = l.cur0 - l.held0 + l.bytes
            /\ api.peak = Max(l.peak0, l.cur0 - l.held0 + l.bytes)

IsMove == api.last.call \in {"move_construct", "move_assign"}

C15_BufferCounters ==
  api.kind = "buffer"
  => /\ CountersTrackBuffers
     /\ IsMove => /\ ~Holds(api.last.src)
                  /\ api.cur = api.last.cur0 /\ api.peak = api.last.peak0

\* C15 (amended): as claimed, except for the moves.  A move-construct, and a
\* move-assign between two distinct buffers, leave the source empty and the
\* destination holding the source's block; a move-assign first releases the
\* block its destination held, so current_bytes drops by that block's size
\* (by nothing for an empty destination or a move-construct) and peak_bytes is
\* unchanged; a move-assign of a buffer to itself changes nothing.
C15_BufferCountersMoveReleases ==
  api.kind = "buffer"
  => /\ CountersTrackBuffers
     /\ IsMove
        => LET l == api.last
           IN  /\ api.peak = l.peak0
               /\ l.target # l.src
                  => /\ ~Holds(l.src)
                     /\ api.bufs[l.target].tracked_bytes_ = l.srcheld0
                     /\ api.cur = l.cur0 - l.held0
               /\ l.target = l.src
                  => /\ api.bufs[l.target].tracked_bytes_ = l.held0
                     /\ api.cur = l.cur0

\* a buffer holding a block is move-assigned another buffer's block
C15_Witness ==
  /\ api.kind = "buffer" /\ api.last.call = "move_assign"
  /\ api.last.target # api.last.src
  /\ api.last.held0 > 0 /\ api.last.srcheld0 > 0
  /\ api.cur = api.last.cur0 - api.last.held0
  /\ api.peak > api.cur

\* C17: for A of shape m x k, B of shape k x n and C of shape m x n,
\* gemm_naive returns with every C(i,j) = sum over p < k of A(i,p)*B(p,j)
\* (zero when k = 0), whatever C held before, and with A and B unmodified;
\* A = [[1,2],[3,4]], B = [[5,6],[7,8]] gives C = [[19,22],[43,50]] under
\* gemm_naive and under both Strassen entry points with leaf_size = 1.
RECURSIVE SumOfProducts(_, _, _)
SumOfProducts(i, j, k) ==
  IF k = 0 THEN 0
  ELSE SumOfProducts(i, j, k - 1) + ValA(inp.seed, i, k - 1) * ValB(inp.seed, k - 1, j)

InputsUnmodified ==
  /\ \A x \in ViewCells(VA) : mem[x] = ValA(inp.seed, RowOf(VA, x), ColOf(VA, x))
  /\ \A x \in ViewCells(VB) : mem[x] = ValB(inp.seed, RowOf(VB, x), ColOf(VB, x))

SanityResult == <<<<19, 22>>, <<43, 50>>>>

C17_NaiveIsTheProduct ==
  /\ (op = "gemm_naive" /\ Compatible /\ epc = "done")
     => /\ status = "returned"
        /\ \A i \in 0..(inp.Ar - 1), j \in 0..(inp.Bc - 1) :
             Load(mem, VC, i, j) = SumOfProducts(i, j, inp.Ac)
        /\ InputsUnmodified
  /\ (/\ op \in EntryPoints /\ inp.seed = SanitySeed /\ Done
      /\ IsStrassen => Leaf = 1)
     => /\ status = "returned"
        /\ \A i \in 0..1, j \in 0..1 : Load(mem, VC, i, j) = SanityResult[i + 1][j + 1]

\* a 3 x 2 by 2 x 4 product
C17_Witness ==
  /\ op = "gemm_naive" /\ status = "returned"
  /\ inp.Ar = 3 /\ inp.Ac = 2 /\ inp.Br = 2 /\ inp.Bc = 4 /\ inp.Cr = 3 /\ inp.Cc = 4
  /\ \A i \in 0..2, j \in 0..3 : Load(mem, VC, i, j) = SumOfProducts(i, j, 2)

\* C18: in the recursive case strassen_rec writes its destination C only in
\* its combination step, after its nine allocations and seven products; so
\* when the arena runs out of capacity anywhere in the recursion, the failure
\* reaches the caller with every element of the top-level C unchanged.
Changed(x) == x \in DOMAIN mem' /\ (x \notin DOMAIN mem \/ mem'[x] # mem[x])

WritesCOnlyInCombine ==
  \A i \in 1..Len(stack) :
    (/\ stack[i].pc # "enter"
     /\ \E x \in ViewCells(stack[i].C) : Changed(x))
    => (i = Len(stack) /\ stack[i].pc = "combine" /\ Len(stack[i].M) = 9)

OutOfScratch == IsStrassen /\ status = "failed" /\ err.kind = "bad_alloc"

C18_COnlyWrittenInCombine ==
  [][WritesCOnlyInCombine]_vars /\ [](OutOfScratch => CUnchanged)

\* the arena ran out inside a nested call, after the top level's nine
\* allocations
C18_Witness ==
  /\ OutOfScratch /\ AllSquareN /\ N = 4 /\ Leaf = 1
  /\ arena.off_bytes >= inp.off0 + 9 * (N \div 2) * (N \div 2) * SizeofT
  /\ CUnchanged

\* C19 (as claimed): when a Strassen call on a caller-supplied arena fails
\* part-way through the recursion (alloc_matrix out of capacity, or the
\* odd-size error at N = 1 with leaf_size = 0), used_bytes is back at its
\* value before the call.
FailsInRecursion ==
  /\ Presized /\ status = "failed"
  /\ \/ err.kind = "bad_alloc"
     \/ Leaf = 0 /\ err.what = "strassen_rec: n must be even (pad first)"

C19_FailureRollsBack == FailsInRecursion => arena.off_bytes = inp.off0

\* C20: at every point of a Strassen multiplication the byte ranges of the
\* scratch matrices M1..M7, T1, T2 of all active frames are pairwise disjoint
\* and inside [0, capacity), and a nested call's scratch lies above its
\* caller's.
ScratchOf == {<<i, j>> : i \in 1..Len(stack), j \in 1..9}
Allocated == {s \in ScratchOf : s[2] <= Len(stack[s[1]].M)}
Lo(s) == stack[s[1]].M[s[2]].data
Hi(s) == LET v == stack[s[1]].M[s[2]] IN v.data + v.rows * v.cols * SizeofT

C20_ScratchDisjoint ==
  \A s \in Allocated :
    /\ stack[s[1]].M[s[2]].buf = arena.buf
    /\ 0 <= Lo(s) /\ Lo(s) < Hi(s) /\ Hi(s) <= arena.cap_bytes
    /\ \A t \in Allocated :
         /\ s # t => (Hi(s) <= Lo(t) \/ Hi(t) <= Lo(s))
         /\ s[1] < t[1] => Hi(s) <= Lo(t)

\* two active frames, each with its nine scratch matrices
C20_Witness ==
  /\ Len(stack) >= 2
  /\ Len(stack[1].M) = 9 /\ Len(stack[2].M) = 9
  /\ \A j \in 1..9 : Hi(<<1, j>>) <= Lo(<<2, 1>>)

\* C16: under every interleaving of tracked_add and tracked_sub by several
\* threads no update is lost: once all calls have finished current_bytes is
\* the total added minus the total subtracted; peak_bytes is at least the
\* value current_bytes held right after each finished add (so peak_bytes >=
\* current_bytes at the end); peak_bytes never decreases; and the
\* compare-exchange loop of every tracked_add terminates.
RECURSIVE Net(_)
Net(prog) ==
  IF prog = <<>> THEN 0
  ELSE (IF Head(prog)[1] = "add" THEN Head(prog)[2] ELSE 0 - Head(prog)[2])
       + Net(Tail(prog))

RECURSIVE NetAll(_)
NetAll(S) ==
  IF S = {} THEN 0
  ELSE LET t == CHOOSE x \in S : TRUE
       IN  Net(Program(t, api.len[t])) + NetAll(S \ {t})

AllFinished == api.kind = "tracked" /\ \A t \in Threads : api.th[t].prog = <<>>

NoLostUpdate ==
  api.kind = "tracked"
  => /\ \A t \in Threads : api.peak >= api.th[t].hi
     /\ AllFinished => (api.cur = NetAll(Threads) /\ api.peak >= api.cur)

C16_NoLostUpdate ==
  /\ [](NoLostUpdate)
  /\ [][api.kind = "tracked" => api'.peak >= api.peak]_vars
  /\ \A t \in Threads : (api.th[t].pc = "loop") ~> (api.th[t].pc = "idle")
  /\ <>(AllFinished)

\* all calls have finished after a compare-exchange lost against the other
\* thread's, and the peak lies above the final count
C16_Witness ==
  /\ AllFinished /\ api.contended
  /\ api.cur = NetAll(Threads) /\ api.peak > api.cur

====
